---- MODULE Spec2Model ----
(***************************************************************************)
(* Back-adjusted continuous futures series: the three batch jobs of        *)
(* src/scripts                                                             *)
(*   "mem"    build-es-continuous.py     (in-memory, period-based engine)  *)
(*   "stream" build-es-1s-continuous.py  (streaming, hourly-primary engine)*)
(*   "aux"    build-es-lt-continuous.py  (auxiliary-series adjuster)       *)
(* as one state machine.  A behaviour is one run of one job on one input.  *)
(*                                                                         *)
(* Time is counted in ticks: a timestamp is                                *)
(*   (date * HoursPerDay + hour) * TicksPerHour + sub                      *)
(* so that date, hour bucket and midnight boundary are computed by integer *)
(* division exactly as the code computes them from the ISO string, the     *)
(* pandas Timestamp or the unix-millisecond value.                         *)
(*                                                                         *)
(* Prices are counted in half-cents (1 unit = 0.005 points).  Raw prices   *)
(* are whole cents (even), a median of an even number of values may be a   *)
(* half-cent (odd).  Float arithmetic is modelled as exact arithmetic on   *)
(* these values.                                                           *)
(***************************************************************************)
EXTENDS Integers, Sequences, FiniteSets, TLC

VARIABLES
    job,            \* which script runs: "mem", "stream" or "aux"
    pc,             \* position in the script's main()
    args,           \* [start, end]: --start / --end dates, NoDate when absent
    src,            \* rows of the input file (bar file, or LT level file)
    present,        \* which of the two input files exist: [src, log]
    logfile,        \* rows of ES_rollover_log.csv
    rollovers,      \* the in-memory rollover list
    pos,            \* number of input rows consumed by the current loop
    out,            \* rows written to the output file
    intervals,      \* stream: the (boundary, adjustment) list
    interval_idx,   \* stream: pass 2's forward-scanning interval index
    hourly_volume,  \* stream: hour key -> (symbol, volume) pairs in insertion order
    primary_per_hour, \* stream: hour key -> primary symbol
    cnt,            \* stream: the row counters of the current pass
    df,             \* mem: the loaded, filtered and sorted frame
    daily_primary,  \* mem: (date, primary) per day, in date order
    prev_symbol,    \* mem: the detector's baseline contract
    cumulative      \* mem: the back-adjustment loop's running total

vars == <<job, pc, args, src, present, logfile, rollovers, pos, out,
          intervals, interval_idx, hourly_volume, primary_per_hour, cnt,
          df, daily_primary, prev_symbol, cumulative>>

memVars == <<df, daily_primary, prev_symbol, cumulative>>

streamVars == <<intervals, interval_idx, hourly_volume, primary_per_hour, cnt>>

-----------------------------------------------------------------------------
(* Bounds of the model *)

MaxDay == 1             \* bar data covers dates 0..MaxDay
HoursPerDay == 2        \* hour buckets per date
TicksPerHour == 2       \* timestamps per hour bucket
MaxRolls == 2           \* rollovers in a rollover log
MaxRecs == 2            \* records in an LT level file
MaxRows == 2            \* rows in a 1-second bar file
MaxRichDays == 3        \* days of a multi-contract 1-minute bar file
MaxPlainDays == 6       \* days of a one-bar-per-day 1-minute bar file

TicksPerDay == HoursPerDay * TicksPerHour
HalfDay == TicksPerDay \div 2

NoDate == -1            \* argparse default=None
EmptyBoundary == -1     \* the boundary "" of the first interval: below every timestamp
Symbols == {"ESA", "ESB", "ESC"}
SpreadSymbol == "ESA-ESB"

-----------------------------------------------------------------------------
(* Generic helpers *)

RECURSIVE SeqSum(_)
SeqSum(s) == IF s = <<>> THEN 0 ELSE Head(s) + SeqSum(Tail(s))

Abs(x) == IF x < 0 THEN -x ELSE x

Last(s) == s[Len(s)]

(* variant: a half-cent always goes up *)
Round2HalfUp(x) == IF x % 2 = 0 THEN x ELSE x + 1

(* round(x, 2): nearest whole cent, a half-cent goes to the even cent *)
Round2(x) ==
    IF x % 2 = 0 THEN x
    ELSE LET m == x \div 2 IN IF m % 2 = 0 THEN 2 * m ELSE 2 * (m + 1)

DateOf(ts) == ts \div TicksPerDay

(* midnight UTC of a rollover date, in ticks *)
MidnightOf(date) == date * TicksPerDay

-----------------------------------------------------------------------------
AllPresent == [src |-> TRUE, log |-> TRUE]

ZeroCnt ==
    [row_count |-> 0, written |-> 0, skipped_spreads |-> 0,
     skipped_non_primary |-> 0, skipped_date |-> 0]

StreamIdle ==
    /\ intervals = <<>>
    /\ interval_idx = 0
    /\ hourly_volume = <<>>
    /\ primary_per_hour = <<>>
    /\ cnt = ZeroCnt

MemIdle ==
    /\ df = <<>>
    /\ daily_primary = <<>>
    /\ prev_symbol = ""
    /\ cumulative = 0

(* Rollover logs: dates strictly increasing, as detect_true_rollovers emits *)

SpreadVals == {-4, 5}
RollDates == 1..(MaxDay + 1)

LogRow(d, s, k) ==
    [date |-> d, spread |-> s,
     from_symbol |-> IF k % 2 = 1 THEN "ESA" ELSE "ESB",
     to_symbol |-> IF k % 2 = 1 THEN "ESB" ELSE "ESA"]

(* the logs whose rollovers k, k+1, ... are dated lo or later; alt: the sign of the
   spread alternates from rollover to rollover *)
RECURSIVE LogTails(_, _, _)
LogTails(k, lo, alt) ==
    {<<>>} \cup
    (IF k > MaxRolls THEN {}
     ELSE UNION { { <<LogRow(d, sp, k)>> \o t :
                      sp \in (IF alt THEN {IF k % 2 = 1 THEN 5 ELSE -4} ELSE SpreadVals),
                      t \in LogTails(k + 1, d + 1, alt) } :
                  d \in { x \in RollDates : x >= lo } })

LogFiles == LogTails(1, 1, FALSE)

-----------------------------------------------------------------------------
(* build-es-lt-continuous.py *)

(* sort(key = switch_ms): stable insertion into a chronologically sorted list *)
RECURSIVE InsertBySwitch(_, _)
InsertBySwitch(r, s) ==
    IF s = <<>> THEN <<r>>
    ELSE IF r.switch_ms < Head(s).switch_ms THEN <<r>> \o s
    ELSE <<Head(s)>> \o InsertBySwitch(r, Tail(s))

RECURSIVE SortBySwitch(_)
SortBySwitch(s) ==
    IF s = <<>> THEN <<>>
    ELSE InsertBySwitch(Last(s), SortBySwitch(SubSeq(s, 1, Len(s) - 1)))

(* variant: the switch placed at the end of the rollover date *)
load_rollovers_day_end(file) ==
    SortBySwitch([k \in 1..Len(file) |->
        [date |-> file[k].date,
         switch_ms |-> MidnightOf(file[k].date + 1),
         spread |-> file[k].spread,
         from |-> file[k].from_symbol,
         to |-> file[k].to_symbol]])

load_rollovers(file) ==
    SortBySwitch([k \in 1..Len(file) |->
        [date |-> file[k].date,
         switch_ms |-> MidnightOf(file[k].date),
         spread |-> file[k].spread,
         from |-> file[k].from_symbol,
         to |-> file[k].to_symbol]])

(* variant: a rollover whose switch equals the timestamp is counted too *)
RECURSIVE compute_adjustment_inclusive(_, _)
compute_adjustment_inclusive(timestamp_ms, rs) ==
    IF rs = <<>> THEN 0
    ELSE (IF timestamp_ms <= Head(rs).switch_ms THEN -Head(rs).spread ELSE 0)
         + compute_adjustment_inclusive(timestamp_ms, Tail(rs))

RECURSIVE compute_adjustment(_, _)
compute_adjustment(timestamp_ms, rs) ==
    IF rs = <<>> THEN 0
    ELSE (IF timestamp_ms < Head(rs).switch_ms THEN -Head(rs).spread ELSE 0)
         + compute_adjustment(timestamp_ms, Tail(rs))

AuxLevels(base) == [i \in 1..5 |-> base + 2 * (i - 1)]

AuxTimes == { MidnightOf(d) + k : d \in 0..(MaxDay + 1), k \in {0, TicksPerDay - 1} }

AuxRecords ==
    [unix_timestamp : AuxTimes, sentiment : {"BULLISH"},
     levels : {AuxLevels(b) : b \in {100, 101}}]

AuxFiles == UNION { [1..n -> AuxRecords] : n \in 0..MaxRecs }

AuxInit ==
    /\ job = "aux"
    /\ pc = "load"
    /\ present = AllPresent
    /\ args = [start |-> NoDate, end |-> NoDate]
    /\ src \in AuxFiles
    /\ logfile \in LogFiles
    /\ rollovers = <<>>
    /\ pos = 0
    /\ out = <<>>
    /\ StreamIdle
    /\ MemIdle

AuxLoadRollovers ==
    /\ job = "aux" /\ pc = "load"
    /\ rollovers' = load_rollovers(logfile)
    /\ pc' = "rows"
    /\ UNCHANGED <<job, present, args, src, logfile, pos, out, streamVars, memVars>>

AuxWriteRow ==
    /\ job = "aux" /\ pc = "rows" /\ pos < Len(src)
    /\ LET row == src[pos + 1]
           adj == compute_adjustment(row.unix_timestamp, rollovers)
       IN out' = Append(out,
                    [unix_timestamp |-> row.unix_timestamp,
                     sentiment |-> row.sentiment,
                     levels |-> [i \in 1..5 |-> Round2(row.levels[i] + adj)]])
    /\ pos' = pos + 1
    /\ UNCHANGED <<job, present, pc, args, src, logfile, rollovers, streamVars, memVars>>

AuxFinish ==
    /\ job = "aux" /\ pc = "rows" /\ pos = Len(src)
    /\ pc' = "done"
    /\ UNCHANGED <<job, present, args, src, logfile, rollovers, pos, out, streamVars, memVars>>

-----------------------------------------------------------------------------
(* build-es-1s-continuous.py *)

hour_key(ts_str) == ts_str \div TicksPerHour

(* variant: no symbol is taken for a calendar spread *)
IsSpreadNever(symbol) == FALSE

(* "-" in symbol *)
IsSpread(symbol) == symbol = SpreadSymbol

load_rollover_log(file) ==
    [k \in 1..Len(file) |->
        [date |-> file[k].date,
         from_symbol |-> file[k].from_symbol,
         to_symbol |-> file[k].to_symbol,
         spread |-> file[k].spread]]

(* suffix_sum[i] for the 0-based index i of the code: spreads of rollovers i..n-1 *)
(* variant: the final rollover's spread left out of every sum *)
RECURSIVE suffix_sum_short(_, _)
suffix_sum_short(rs, i) ==
    IF i >= Len(rs) - 1 THEN 0 ELSE suffix_sum_short(rs, i + 1) + rs[i + 1].spread

RECURSIVE suffix_sum(_, _)
suffix_sum(rs, i) ==
    IF i >= Len(rs) THEN 0 ELSE suffix_sum(rs, i + 1) + rs[i + 1].spread

(* variant: the interval after rollover k still carries rollover k's spread *)
build_adjustment_intervals_late(rs) ==
    IF rs = <<>> THEN << [boundary |-> EmptyBoundary, adjustment |-> 0] >>
    ELSE << [boundary |-> EmptyBoundary, adjustment |-> -suffix_sum(rs, 0)] >>
         \o [k \in 1..Len(rs) |->
                [boundary |-> MidnightOf(rs[k].date),
                 adjustment |-> -suffix_sum(rs, k - 1)]]

build_adjustment_intervals(rs) ==
    IF rs = <<>> THEN << [boundary |-> EmptyBoundary, adjustment |-> 0] >>
    ELSE << [boundary |-> EmptyBoundary, adjustment |-> -suffix_sum(rs, 0)] >>
         \o [k \in 1..Len(rs) |->
                [boundary |-> MidnightOf(rs[k].date),
                 adjustment |-> -suffix_sum(rs, k)]]

(* start_date = args.start + "T": ts < start_date exactly when ts's date is earlier *)
BeforeStart(ts, a) == a.start # NoDate /\ DateOf(ts) < a.start

(* end_date = args.end + "T99": ts > end_date exactly when ts's date is later *)
AfterEnd(ts, a) == a.end # NoDate /\ DateOf(ts) > a.end

(* variant: only the first hour bucket seen is ever recorded *)
AddVolumeFirstHour(hv, hk, symbol, vol) ==
    LET old == IF hk \in DOMAIN hv THEN hv[hk] ELSE <<>>
        has == \E k \in 1..Len(old) : old[k].symbol = symbol
        new == IF has
               THEN [k \in 1..Len(old) |->
                        IF old[k].symbol = symbol
                        THEN [symbol |-> symbol, volume |-> old[k].volume + vol]
                        ELSE old[k]]
               ELSE Append(old, [symbol |-> symbol, volume |-> vol])
    IN IF DOMAIN hv # {} /\ hk \notin DOMAIN hv THEN hv
       ELSE [h \in (DOMAIN hv) \cup {hk} |-> IF h = hk THEN new ELSE hv[h]]

(* hourly_volume[hk][symbol] += vol, a new symbol going last in the dict *)
AddVolume(hv, hk, symbol, vol) ==
    LET old == IF hk \in DOMAIN hv THEN hv[hk] ELSE <<>>
        has == \E k \in 1..Len(old) : old[k].symbol = symbol
        new == IF has
               THEN [k \in 1..Len(old) |->
                        IF old[k].symbol = symbol
                        THEN [symbol |-> symbol, volume |-> old[k].volume + vol]
                        ELSE old[k]]
               ELSE Append(old, [symbol |-> symbol, volume |-> vol])
    IN [h \in (DOMAIN hv) \cup {hk} |-> IF h = hk THEN new ELSE hv[h]]

(* variant: the symbol seen last in the bucket *)
LatestSymbol(symbols) == symbols[Len(symbols)].symbol

(* variant: of the symbols of maximal volume, the one that entered the dict last *)
BestSymbolLast(symbols) ==
    LET k == CHOOSE j \in 1..Len(symbols) :
                /\ \A m \in 1..Len(symbols) : symbols[m].volume <= symbols[j].volume
                /\ \A m \in (j + 1)..Len(symbols) : symbols[m].volume < symbols[j].volume
    IN symbols[k].symbol

(* max(symbols, key = symbols.get): the first symbol, in dict order, of maximal volume *)
BestSymbol(symbols) ==
    LET k == CHOOSE j \in 1..Len(symbols) :
                /\ \A m \in 1..Len(symbols) : symbols[m].volume <= symbols[j].volume
                /\ \A m \in 1..(j - 1) : symbols[m].volume < symbols[j].volume
    IN symbols[k].symbol

(* while interval_idx + 1 < len(intervals) and ts >= intervals[interval_idx + 1][0];
   idx is the 0-based index of the code *)
(* variant: the index moves on by one interval at most *)
AdvanceIntervalOnce(idx, ts, ivs) ==
    IF idx + 1 < Len(ivs) /\ ts >= ivs[idx + 2].boundary THEN idx + 1 ELSE idx

(* variant: a bar exactly on a boundary stays in the earlier interval *)
RECURSIVE AdvanceIntervalStrict(_, _, _)
AdvanceIntervalStrict(idx, ts, ivs) ==
    IF idx + 1 < Len(ivs) /\ ts > ivs[idx + 2].boundary
    THEN AdvanceIntervalStrict(idx + 1, ts, ivs)
    ELSE idx

RECURSIVE AdvanceInterval(_, _, _)
AdvanceInterval(idx, ts, ivs) ==
    IF idx + 1 < Len(ivs) /\ ts >= ivs[idx + 2].boundary
    THEN AdvanceInterval(idx + 1, ts, ivs)
    ELSE idx

(* raw closes, whole cents; the ESB-ESA difference changes from half-day to half-day *)
RawClose(symbol, ts) ==
    4 * ts + (IF symbol = "ESA" THEN 1000
              ELSE IF symbol = "ESB" THEN 1012 + 2 * ((ts \div HalfDay) % 2)
              ELSE 1006)

Bar(ts, symbol, vol) ==
    [ts_event |-> ts,
     open |-> RawClose(symbol, ts) - 2, high |-> RawClose(symbol, ts) + 4,
     low |-> RawClose(symbol, ts) - 6, close |-> RawClose(symbol, ts),
     volume |-> vol, symbol |-> symbol]

StreamTimes ==
    { MidnightOf(d) + k : d \in 0..MaxDay, k \in {0, 1, TicksPerHour} }
    \cup { MidnightOf(MaxDay + 1) }

(* rows whose field count differs from the header's (ts_event, open, high, low, close,
   volume, symbol): the last two fields cut off, or one more field at the end *)
ShortRow(ts) ==
    [ts_event |-> ts,
     open |-> RawClose("ESA", ts) - 2, high |-> RawClose("ESA", ts) + 4,
     low |-> RawClose("ESA", ts) - 6, close |-> RawClose("ESA", ts)]

LongRow(ts) ==
    [ts_event |-> ts,
     open |-> RawClose("ESA", ts) - 2, high |-> RawClose("ESA", ts) + 4,
     low |-> RawClose("ESA", ts) - 6, close |-> RawClose("ESA", ts),
     volume |-> 1, symbol |-> "ESA", extra |-> "x"]

MalformedRows ==
    { ShortRow(MidnightOf(d)) : d \in 0..MaxDay } \cup
    { LongRow(MidnightOf(d)) : d \in 0..MaxDay }

StreamRows ==
    { Bar(ts, "ESA", 1) : ts \in StreamTimes } \cup
    { Bar(ts, "ESB", 1) : ts \in StreamTimes } \cup
    { Bar(ts, "ESB", 2) : ts \in StreamTimes } \cup
    { Bar(MidnightOf(d), SpreadSymbol, 3) : d \in 0..MaxDay } \cup
    MalformedRows

(* the bar file is sorted ascending by timestamp *)
StreamFiles ==
    { f \in UNION { [1..n -> StreamRows] : n \in 0..MaxRows } :
        \A k \in 1..(Len(f) - 1) : f[k].ts_event <= f[k + 1].ts_event }

StreamArgs ==
    { [start |-> NoDate, end |-> NoDate],
      [start |-> MaxDay, end |-> NoDate],
      [start |-> NoDate, end |-> 0] }

(* a log with a rollover on every date, all of spread sp *)
DailyLog(sp) == [k \in 1..MaxRolls |-> LogRow(k, sp, k)]

(* the logs the streaming job is run on: the sign of the spread alternates, or every
   spread is the same *)
StreamLogs == LogTails(1, 1, TRUE) \cup { DailyLog(sp) : sp \in SpreadVals }

StreamInit ==
    /\ job = "stream"
    /\ pc = "load"
    /\ present \in [src : BOOLEAN, log : BOOLEAN]
    /\ src \in (IF present.src THEN StreamFiles ELSE {<<>>})
    /\ logfile \in (IF present.log THEN StreamLogs ELSE {<<>>})
    /\ args \in StreamArgs
    /\ rollovers = <<>>
    /\ pos = 0
    /\ out = <<>>
    /\ StreamIdle
    /\ MemIdle

(* variant: only the bar file is looked for *)
InputsPresentBarOnly(p) == p.src

(* OHLCV_FILE.exists() and ROLLOVER_LOG.exists() *)
InputsPresent(p) == p.src /\ p.log

(* main, lines 383-390: sys.exit(1) when an input file is missing *)
StreamMissing ==
    /\ job = "stream" /\ pc = "load"
    /\ ~InputsPresent(present)
    /\ pc' = "exit1"
    /\ UNCHANGED <<job, present, args, src, logfile, rollovers, pos, out, streamVars, memVars>>

(* main, lines 394-398: load the log, build the intervals *)
StreamLoad ==
    /\ job = "stream" /\ pc = "load"
    /\ InputsPresent(present)
    /\ rollovers' = load_rollover_log(logfile)
    /\ intervals' = build_adjustment_intervals(load_rollover_log(logfile))
    /\ pc' = "pass1"
    /\ UNCHANGED <<job, present, args, src, logfile, pos, out,
                   interval_idx, hourly_volume, primary_per_hour, cnt, memVars>>

(* row[sym_idx] on a row with fewer fields than the header raises IndexError *)
FieldMissing(row) == "symbol" \notin DOMAIN row

(* one iteration of pass 1's row loop *)
Pass1Row ==
    /\ job = "stream" /\ pc = "pass1" /\ pos < Len(src)
    /\ pos' = pos + 1
    /\ LET row == src[pos + 1]
           c1 == [cnt EXCEPT !.row_count = @ + 1]
       IN IF FieldMissing(row)
          THEN /\ pc' = "crash"
               /\ cnt' = c1
               /\ UNCHANGED hourly_volume
          ELSE IF IsSpread(row.symbol)
          THEN /\ cnt' = [c1 EXCEPT !.skipped_spreads = @ + 1]
               /\ UNCHANGED <<pc, hourly_volume>>
          ELSE IF BeforeStart(row.ts_event, args) \/ AfterEnd(row.ts_event, args)
          THEN /\ cnt' = [c1 EXCEPT !.skipped_date = @ + 1]
               /\ UNCHANGED <<pc, hourly_volume>>
          ELSE /\ cnt' = c1
               /\ hourly_volume' = AddVolume(hourly_volume, hour_key(row.ts_event),
                                             row.symbol, row.volume)
               /\ UNCHANGED pc
    /\ UNCHANGED <<job, present, args, src, logfile, rollovers, out,
                   intervals, interval_idx, primary_per_hour, memVars>>

(* end of pass 1: the primary per hour; pass 2 opens the files and resets its counters *)
Pass1Finish ==
    /\ job = "stream" /\ pc = "pass1" /\ pos = Len(src)
    /\ primary_per_hour' = [hk \in DOMAIN hourly_volume |-> BestSymbol(hourly_volume[hk])]
    /\ pc' = "pass2"
    /\ pos' = 0
    /\ cnt' = ZeroCnt
    /\ interval_idx' = 0
    /\ out' = <<>>
    /\ UNCHANGED <<job, present, args, src, logfile, rollovers, intervals, hourly_volume, memVars>>

(* variant: a row outside the date range is skipped without being counted *)
Pass2RowDateUncounted ==
    /\ job = "stream" /\ pc = "pass2" /\ pos < Len(src)
    /\ pos' = pos + 1
    /\ LET row == src[pos + 1]
           ts == row.ts_event
           hk == hour_key(ts)
           c1 == [cnt EXCEPT !.row_count = @ + 1]
           idx == AdvanceInterval(interval_idx, ts, intervals)
           adj == intervals[idx + 1].adjustment
       IN IF FieldMissing(row)
          THEN /\ pc' = "crash"
               /\ cnt' = c1
               /\ UNCHANGED <<out, interval_idx>>
          ELSE IF IsSpread(row.symbol)
          THEN /\ cnt' = [c1 EXCEPT !.skipped_spreads = @ + 1]
               /\ UNCHANGED <<pc, out, interval_idx>>
          ELSE IF BeforeStart(ts, args) \/ AfterEnd(ts, args)
          THEN /\ cnt' = c1
               /\ UNCHANGED <<pc, out, interval_idx>>
          ELSE IF hk \notin DOMAIN primary_per_hour \/ row.symbol # primary_per_hour[hk]
          THEN /\ cnt' = [c1 EXCEPT !.skipped_non_primary = @ + 1]
               /\ UNCHANGED <<pc, out, interval_idx>>
          ELSE /\ UNCHANGED pc
               /\ interval_idx' = idx
               /\ out' = Append(out,
                    [ts_event |-> ts,
                     open |-> row.open + adj, high |-> row.high + adj,
                     low |-> row.low + adj, close |-> row.close + adj,
                     volume |-> row.volume, symbol |-> "ES_continuous",
                     contract |-> row.symbol])
               /\ cnt' = [c1 EXCEPT !.written = @ + 1]
    /\ UNCHANGED <<job, present, args, src, logfile, rollovers,
                   intervals, hourly_volume, primary_per_hour, memVars>>

(* one iteration of pass 2's row loop *)
Pass2Row ==
    /\ job = "stream" /\ pc = "pass2" /\ pos < Len(src)
    /\ pos' = pos + 1
    /\ LET row == src[pos + 1]
           ts == row.ts_event
           hk == hour_key(ts)
           c1 == [cnt EXCEPT !.row_count = @ + 1]
           idx == AdvanceInterval(interval_idx, ts, intervals)
           adj == intervals[idx + 1].adjustment
       IN IF FieldMissing(row)
          THEN /\ pc' = "crash"
               /\ cnt' = c1
               /\ UNCHANGED <<out, interval_idx>>
          ELSE IF IsSpread(row.symbol)
          THEN /\ cnt' = [c1 EXCEPT !.skipped_spreads = @ + 1]
               /\ UNCHANGED <<pc, out, interval_idx>>
          ELSE IF BeforeStart(ts, args) \/ AfterEnd(ts, args)
          THEN /\ cnt' = [c1 EXCEPT !.skipped_date = @ + 1]
               /\ UNCHANGED <<pc, out, interval_idx>>
          ELSE IF hk \notin DOMAIN primary_per_hour \/ row.symbol # primary_per_hour[hk]
          THEN /\ cnt' = [c1 EXCEPT !.skipped_non_primary = @ + 1]
               /\ UNCHANGED <<pc, out, interval_idx>>
          ELSE /\ UNCHANGED pc
               /\ interval_idx' = idx
               /\ out' = Append(out,
                    [ts_event |-> ts,
                     open |-> row.open + adj, high |-> row.high + adj,
                     low |-> row.low + adj, close |-> row.close + adj,
                     volume |-> row.volume, symbol |-> "ES_continuous",
                     contract |-> row.symbol])
               /\ cnt' = [c1 EXCEPT !.written = @ + 1]
    /\ UNCHANGED <<job, present, args, src, logfile, rollovers,
                   intervals, hourly_volume, primary_per_hour, memVars>>

Pass2Finish ==
    /\ job = "stream" /\ pc = "pass2" /\ pos = Len(src)
    /\ pc' = "done"
    /\ UNCHANGED <<job, present, args, src, logfile, rollovers, pos, out, streamVars, memVars>>

-----------------------------------------------------------------------------
(* build-es-continuous.py *)

LookAheadDays == 5      \* future = daily_primary.iloc[i:i+5]
MinPersist == 2         \* (future["primary"] == curr_symbol).sum() >= 2

(* sort_values("ts_event"); rows of equal timestamp keep their file order *)
RankByTs(s, k) ==
    Cardinality({ j \in 1..Len(s) :
                    \/ s[j].ts_event < s[k].ts_event
                    \/ s[j].ts_event = s[k].ts_event /\ j <= k })

SortByTs(s) ==
    [p \in 1..Len(s) |-> s[CHOOSE k \in 1..Len(s) : RankByTs(s, k) = p]]

(* variant: the dash filter left out *)
KeptByLoadDatesOnly(r, a) ==
    /\ a.start # NoDate => r.ts_event >= MidnightOf(a.start)
    /\ a.end # NoDate => r.ts_event <= MidnightOf(a.end)

(* the rows load_raw_data keeps: ts >= Timestamp(start), ts <= Timestamp(end), no dash *)
KeptByLoad(r, a) ==
    /\ a.start # NoDate => r.ts_event >= MidnightOf(a.start)
    /\ a.end # NoDate => r.ts_event <= MidnightOf(a.end)
    /\ ~IsSpread(r.symbol)

load_raw_data(file, a) ==
    LET Keep(r) == KeptByLoad(r, a) IN SortByTs(SelectSeq(file, Keep))

(* lexicographic order of the contract symbols, the order groupby sorts them in *)
SymRank(symbol) ==
    IF symbol = "ESA" THEN 1 ELSE IF symbol = "ESB" THEN 2 ELSE 3

(* groupby(["date", "symbol"])["volume"].sum() for one (date, symbol) group *)
VolumeOn(rows, date, symbol) ==
    LET InGroup(r) == DateOf(r.ts_event) = date /\ r.symbol = symbol
        group == SelectSeq(rows, InGroup)
    IN SeqSum([k \in 1..Len(group) |-> group[k].volume])

SymbolsOn(rows, date) ==
    { rows[k].symbol : k \in { j \in 1..Len(rows) : DateOf(rows[j].ts_event) = date } }

(* groupby("date")["volume"].idxmax(): the first row of maximal volume, rows being
   ordered by (date, symbol) *)
DayPrimary(rows, date) ==
    CHOOSE x \in SymbolsOn(rows, date) :
        \A y \in SymbolsOn(rows, date) :
            \/ VolumeOn(rows, date, y) < VolumeOn(rows, date, x)
            \/ /\ VolumeOn(rows, date, y) = VolumeOn(rows, date, x)
               /\ SymRank(x) <= SymRank(y)

AscendingSeq(S) ==
    [k \in 1..Cardinality(S) |->
        CHOOSE x \in S : Cardinality({ y \in S : y <= x }) = k]

DailyPrimary(rows) ==
    LET dates == AscendingSeq({ DateOf(rows[k].ts_event) : k \in 1..Len(rows) })
    IN [k \in 1..Len(dates) |->
            [date |-> dates[k], primary |-> DayPrimary(rows, dates[k])]]

(* variant: a single day of dominance is enough *)
PersistsOnce(dp, i) ==
    LET future == SubSeq(dp, i + 1, IF i + LookAheadDays <= Len(dp)
                                     THEN i + LookAheadDays ELSE Len(dp))
        curr == dp[i + 1].primary
    IN /\ Len(future) >= 2
       /\ Cardinality({ k \in 1..Len(future) : future[k].primary = curr }) >= 1

(* len(future) >= 2 and (future["primary"] == curr_symbol).sum() >= 2 *)
Persists(dp, i) ==
    LET future == SubSeq(dp, i + 1, IF i + LookAheadDays <= Len(dp)
                                     THEN i + LookAheadDays ELSE Len(dp))
        curr == dp[i + 1].primary
    IN /\ Len(future) >= 2
       /\ Cardinality({ k \in 1..Len(future) : future[k].primary = curr }) >= MinPersist

(* variant: the rollover is dated at the bucket before the change *)
DetectAtEarly(dp, i, prev, rs) ==
    LET curr == dp[i + 1].primary
    IN IF curr # prev /\ Persists(dp, i)
       THEN [rollovers |-> Append(rs, [date |-> dp[i].date,
                                       from_symbol |-> prev, to_symbol |-> curr]),
             prev_symbol |-> curr]
       ELSE [rollovers |-> rs, prev_symbol |-> prev]

(* variant: a rejected change still becomes the baseline *)
DetectAtDrift(dp, i, prev, rs) ==
    LET curr == dp[i + 1].primary
    IN IF curr # prev /\ Persists(dp, i)
       THEN [rollovers |-> Append(rs, [date |-> dp[i + 1].date,
                                       from_symbol |-> prev, to_symbol |-> curr]),
             prev_symbol |-> curr]
       ELSE [rollovers |-> rs, prev_symbol |-> curr]

(* one iteration of the detector's loop at the 0-based index i: the rollover list and
   the baseline after it *)
DetectAt(dp, i, prev, rs) ==
    LET curr == dp[i + 1].primary
    IN IF curr # prev /\ Persists(dp, i)
       THEN [rollovers |-> Append(rs, [date |-> dp[i + 1].date,
                                       from_symbol |-> prev, to_symbol |-> curr]),
             prev_symbol |-> curr]
       ELSE [rollovers |-> rs, prev_symbol |-> prev]

find_rollover_minute(r) == MidnightOf(r.date)

RECURSIVE InsertInt(_, _)
InsertInt(x, s) ==
    IF s = <<>> THEN <<x>>
    ELSE IF x < Head(s) THEN <<x>> \o s ELSE <<Head(s)>> \o InsertInt(x, Tail(s))

RECURSIVE SortInts(_)
SortInts(s) == IF s = <<>> THEN <<>> ELSE InsertInt(Head(s), SortInts(Tail(s)))

(* variant: the upper of the two middle values *)
MedianUpper(s) ==
    LET v == SortInts(s)
        n == Len(v)
    IN v[n \div 2 + 1]

(* Series.median(): the middle value, or the mean of the two middle values *)
Median(s) ==
    LET v == SortInts(s)
        n == Len(v)
    IN IF n % 2 = 1 THEN v[(n + 1) \div 2] ELSE (v[n \div 2] + v[n \div 2 + 1]) \div 2

(* drop_duplicates("ts_event", keep="last").set_index("ts_event")["close"]: the close
   of the last row of the symbol at the timestamp *)
CloseAt(rows, symbol, ts) ==
    LET ks == { k \in 1..Len(rows) : rows[k].symbol = symbol /\ rows[k].ts_event = ts }
    IN rows[CHOOSE k \in ks : \A j \in ks : j <= k].close

(* variant: outgoing minus incoming *)
SpreadAtSwapped(window, from_sym, to_sym, ts) ==
    CloseAt(window, from_sym, ts) - CloseAt(window, to_sym, ts)

(* to_bars.reindex(overlap) - from_bars.reindex(overlap), at one timestamp *)
SpreadAt(window, from_sym, to_sym, ts) ==
    CloseAt(window, to_sym, ts) - CloseAt(window, from_sym, ts)

TimesOf(rows, symbol) ==
    { rows[k].ts_event : k \in { j \in 1..Len(rows) : rows[j].symbol = symbol } }

(* variant: the fallback takes the last close of the incoming contract *)
SpreadOfLastNew(rows, date, from_sym, to_sym) ==
    LET roll_date == MidnightOf(date)
        InWindow(r) == /\ r.ts_event >= roll_date - HalfDay
                       /\ r.ts_event <= roll_date + HalfDay
        window == SelectSeq(rows, InWindow)
        overlap == AscendingSeq(TimesOf(window, from_sym) \cap TimesOf(window, to_sym))
        spreads == [k \in 1..Len(overlap) |->
                      SpreadAt(window, from_sym, to_sym, overlap[k])]
        IsOld(r) == r.symbol = from_sym /\ r.ts_event < roll_date
        IsNew(r) == r.symbol = to_sym /\ r.ts_event >= roll_date
        old == SelectSeq(rows, IsOld)
        new == SelectSeq(rows, IsNew)
    IN IF Len(overlap) > 0
       THEN [ok |-> TRUE, spread |-> Median(spreads), overlap_bars |-> Len(overlap),
             spread_min |-> SortInts(spreads)[1],
             spread_max |-> Last(SortInts(spreads))]
       ELSE IF old = <<>> \/ new = <<>>
       THEN [ok |-> FALSE, spread |-> 0, overlap_bars |-> 0,
             spread_min |-> 0, spread_max |-> 0]
       ELSE [ok |-> TRUE, spread |-> Last(new).close - Last(old).close,
             overlap_bars |-> 0,
             spread_min |-> Last(new).close - Last(old).close,
             spread_max |-> Last(new).close - Last(old).close]

(* the body of compute_rollover_spreads' loop for one rollover; ok is FALSE when the
   last/first-price lookup indexes an empty selection *)
SpreadOf(rows, date, from_sym, to_sym) ==
    LET roll_date == MidnightOf(date)
        InWindow(r) == /\ r.ts_event >= roll_date - HalfDay
                       /\ r.ts_event <= roll_date + HalfDay
        window == SelectSeq(rows, InWindow)
        overlap == AscendingSeq(TimesOf(window, from_sym) \cap TimesOf(window, to_sym))
        spreads == [k \in 1..Len(overlap) |->
                      SpreadAt(window, from_sym, to_sym, overlap[k])]
        IsOld(r) == r.symbol = from_sym /\ r.ts_event < roll_date
        IsNew(r) == r.symbol = to_sym /\ r.ts_event >= roll_date
        old == SelectSeq(rows, IsOld)
        new == SelectSeq(rows, IsNew)
    IN IF Len(overlap) > 0
       THEN [ok |-> TRUE, spread |-> Median(spreads), overlap_bars |-> Len(overlap),
             spread_min |-> SortInts(spreads)[1],
             spread_max |-> Last(SortInts(spreads))]
       ELSE IF old = <<>> \/ new = <<>>
       THEN [ok |-> FALSE, spread |-> 0, overlap_bars |-> 0,
             spread_min |-> 0, spread_max |-> 0]
       ELSE [ok |-> TRUE, spread |-> Head(new).close - Last(old).close,
             overlap_bars |-> 0,
             spread_min |-> Head(new).close - Last(old).close,
             spread_max |-> Head(new).close - Last(old).close]

(* the contract assignment periods of build_continuous_series *)
Periods(rows, rs, dp) ==
    LET first_contract == IF rs # <<>> THEN rs[1].from_symbol ELSE dp[1].primary
        n == Len(rs)
    IN [k \in 1..(n + 1) |->
          [start |-> IF k = 1 THEN rows[1].ts_event
                     ELSE find_rollover_minute(rs[k - 1]),
           end |-> IF k = n + 1 THEN Last(rows).ts_event + 1
                   ELSE find_rollover_minute(rs[k]),
           symbol |-> IF k = 1 THEN first_contract ELSE rs[k - 1].to_symbol]]

(* variant: a bar on a switch stays with the outgoing contract *)
FilterToPeriodsClosedEnd(rows, ps) ==
    LET InPeriod(r) == \E k \in 1..Len(ps) :
                          /\ (k = 1 \/ r.ts_event > ps[k].start)
                          /\ (k = Len(ps) \/ r.ts_event <= ps[k].end)
                          /\ r.symbol = ps[k].symbol
        masked == SelectSeq(rows, InPeriod)
        lastAt == { k \in 1..Len(masked) :
                      \A j \in (k + 1)..Len(masked) :
                          masked[j].ts_event # masked[k].ts_event }
        idx == AscendingSeq(lastAt)
    IN SortByTs([k \in 1..Len(idx) |-> masked[idx[k]]])

(* df[mask], drop_duplicates("ts_event", keep="last"), sort_values("ts_event") *)
FilterToPeriods(rows, ps) ==
    LET InPeriod(r) == \E k \in 1..Len(ps) :
                          /\ r.ts_event >= ps[k].start
                          /\ r.ts_event < ps[k].end
                          /\ r.symbol = ps[k].symbol
        masked == SelectSeq(rows, InPeriod)
        lastAt == { k \in 1..Len(masked) :
                      \A j \in (k + 1)..Len(masked) :
                          masked[j].ts_event # masked[k].ts_event }
        idx == AscendingSeq(lastAt)
    IN SortByTs([k \in 1..Len(idx) |-> masked[idx[k]]])

(* variant: only the close is shifted *)
SubtractCloseOnly(rows, switch_ts, spread) ==
    [k \in 1..Len(rows) |->
        IF rows[k].ts_event < switch_ts
        THEN [rows[k] EXCEPT !.close = @ - spread]
        ELSE rows[k]]

(* variant: the bar on the switch itself is shifted too *)
SubtractThrough(rows, switch_ts, spread) ==
    [k \in 1..Len(rows) |->
        IF rows[k].ts_event <= switch_ts
        THEN [rows[k] EXCEPT !.open = @ - spread, !.high = @ - spread,
                             !.low = @ - spread, !.close = @ - spread]
        ELSE rows[k]]

(* continuous.loc[ts_event < switch_ts, price_cols] -= spread *)
SubtractBefore(rows, switch_ts, spread) ==
    [k \in 1..Len(rows) |->
        IF rows[k].ts_event < switch_ts
        THEN [rows[k] EXCEPT !.open = @ - spread, !.high = @ - spread,
                             !.low = @ - spread, !.close = @ - spread]
        ELSE rows[k]]

(* the whole back-adjustment loop: rollovers n, n-1, ..., 1 in that order *)
RECURSIVE BackAdjust(_, _, _)
BackAdjust(rows, rs, n) ==
    IF n = 0 THEN rows
    ELSE BackAdjust(SubtractBefore(rows, find_rollover_minute(rs[n]), rs[n].spread),
                    rs, n - 1)

(* 1-minute bar files.  A day of a rich file holds one of seven row patterns; a plain
   file holds one midnight bar per day; a scenario file is the three-contract
   end-to-end scenario with the primary switching on days d1 and d2, each contract
   having a bar at the first and at the last tick of every day it trades *)
DayRows(d, p) ==
    LET am == MidnightOf(d)
        pm == MidnightOf(d) + HalfDay
    IN CASE p = 1 -> << Bar(am, "ESA", 1) >>
         [] p = 2 -> << Bar(am, "ESB", 1) >>
         [] p = 3 -> << Bar(am, "ESA", 1), Bar(pm, "ESA", 1), Bar(pm, "ESB", 1) >>
         [] p = 4 -> << Bar(am, "ESA", 1), Bar(am, "ESB", 1), Bar(pm, "ESB", 1) >>
         [] p = 5 -> << Bar(am, "ESA", 1), Bar(am, "ESB", 1) >>
         [] p = 6 -> << Bar(pm, "ESA", 1), Bar(pm, "ESB", 2) >>
         [] OTHER -> << Bar(am, SpreadSymbol, 3), Bar(am, "ESB", 1) >>

RECURSIVE RichFile(_)
RichFile(ps) ==
    IF ps = <<>> THEN <<>>
    ELSE RichFile(SubSeq(ps, 1, Len(ps) - 1)) \o DayRows(Len(ps) - 1, Last(ps))

PlainFile(syms) == [k \in 1..Len(syms) |-> Bar(MidnightOf(k - 1), syms[k], 1)]

ScenarioClose(symbol, ts) ==
    800000 + 10 * ts + (IF symbol = "ESA" THEN 0
                        ELSE IF symbol = "ESB" THEN 1000 ELSE 400)

Trades(symbol, d) ==
    IF symbol = "ESA" THEN d \in 1..10
    ELSE IF symbol = "ESB" THEN d \in 8..20 ELSE d \in 18..30

ScenarioPrimary(d, d1, d2) ==
    IF d < d1 THEN "ESA" ELSE IF d < d2 THEN "ESB" ELSE "ESC"

ScenarioBar(ts, symbol, d, d1, d2) ==
    [ts_event |-> ts,
     open |-> ScenarioClose(symbol, ts) - 2, high |-> ScenarioClose(symbol, ts) + 4,
     low |-> ScenarioClose(symbol, ts) - 6, close |-> ScenarioClose(symbol, ts),
     volume |-> IF symbol = ScenarioPrimary(d, d1, d2) THEN 2 ELSE 1,
     symbol |-> symbol]

RECURSIVE ScenarioFile(_, _, _)
ScenarioFile(d, d1, d2) ==
    IF d = 0 THEN <<>>
    ELSE LET am == MidnightOf(d)
             pm == MidnightOf(d + 1) - 1
             OnDay(r) == Trades(r.symbol, d)
         IN ScenarioFile(d - 1, d1, d2) \o
            SelectSeq(<< ScenarioBar(am, "ESA", d, d1, d2),
                         ScenarioBar(am, "ESB", d, d1, d2),
                         ScenarioBar(am, "ESC", d, d1, d2),
                         ScenarioBar(pm, "ESA", d, d1, d2),
                         ScenarioBar(pm, "ESB", d, d1, d2),
                         ScenarioBar(pm, "ESC", d, d1, d2) >>, OnDay)

RichFiles == { RichFile(ps) : ps \in UNION { [1..n -> 1..7] : n \in 0..MaxRichDays } }

PlainFiles == { PlainFile(syms) : syms \in UNION { [1..n -> Symbols] : n \in 0..MaxPlainDays } }

ScenarioFiles == { ScenarioFile(30, d1, d2) : d1 \in 8..11, d2 \in 18..21 }

NoArgs == [start |-> NoDate, end |-> NoDate]

MemArgs == { NoArgs, [start |-> 1, end |-> NoDate], [start |-> NoDate, end |-> 1] }

MemInit ==
    /\ job = "mem"
    /\ pc = "load"
    /\ present = AllPresent
    /\ \/ src \in RichFiles \cup PlainFiles /\ args \in MemArgs
       \/ src \in ScenarioFiles /\ args = NoArgs
    /\ logfile = <<>>
    /\ rollovers = <<>>
    /\ pos = 0
    /\ out = <<>>
    /\ StreamIdle
    /\ MemIdle

(* load_raw_data; pd.concat of no chunk raises *)
MemLoad ==
    /\ job = "mem" /\ pc = "load"
    /\ IF load_raw_data(src, args) = <<>>
       THEN pc' = "crash" /\ UNCHANGED df
       ELSE pc' = "primary" /\ df' = load_raw_data(src, args)
    /\ UNCHANGED <<job, present, args, src, logfile, rollovers, pos, out, streamVars,
                   daily_primary, prev_symbol, cumulative>>

(* detect_true_rollovers up to the loop: the dominant contract per day *)
MemDailyPrimary ==
    /\ job = "mem" /\ pc = "primary"
    /\ daily_primary' = DailyPrimary(df)
    /\ prev_symbol' = DailyPrimary(df)[1].primary
    /\ rollovers' = <<>>
    /\ pos' = 1
    /\ pc' = "detect"
    /\ UNCHANGED <<job, present, args, src, logfile, out, streamVars, df, cumulative>>

(* one iteration of the detector's loop *)
DetectStep ==
    /\ job = "mem" /\ pc = "detect" /\ pos < Len(daily_primary)
    /\ rollovers' = DetectAt(daily_primary, pos, prev_symbol, rollovers).rollovers
    /\ prev_symbol' = DetectAt(daily_primary, pos, prev_symbol, rollovers).prev_symbol
    /\ pos' = pos + 1
    /\ UNCHANGED <<job, present, pc, args, src, logfile, out, streamVars,
                   df, daily_primary, cumulative>>

DetectDone ==
    /\ job = "mem" /\ pc = "detect" /\ pos >= Len(daily_primary)
    /\ pc' = "spreads"
    /\ pos' = 0
    /\ UNCHANGED <<job, present, args, src, logfile, rollovers, out, streamVars, memVars>>

(* one iteration of compute_rollover_spreads' loop *)
SpreadStep ==
    /\ job = "mem" /\ pc = "spreads" /\ pos < Len(rollovers)
    /\ LET r == rollovers[pos + 1]
           sp == SpreadOf(df, r.date, r.from_symbol, r.to_symbol)
       IN IF sp.ok
          THEN /\ rollovers' = [rollovers EXCEPT ![pos + 1] =
                     [date |-> r.date, from_symbol |-> r.from_symbol,
                      to_symbol |-> r.to_symbol, spread |-> sp.spread,
                      overlap_bars |-> sp.overlap_bars,
                      spread_min |-> sp.spread_min, spread_max |-> sp.spread_max]]
               /\ pos' = pos + 1
               /\ UNCHANGED pc
          ELSE /\ pc' = "crash"
               /\ UNCHANGED <<rollovers, pos>>
    /\ UNCHANGED <<job, present, args, src, logfile, out, streamVars, memVars>>

(* build_continuous_series up to the back-adjustment loop *)
MemFilter ==
    /\ job = "mem" /\ pc = "spreads" /\ pos = Len(rollovers)
    /\ out' = FilterToPeriods(df, Periods(df, rollovers, daily_primary))
    /\ cumulative' = 0
    /\ pos' = 0
    /\ pc' = "adjust"
    /\ UNCHANGED <<job, present, args, src, logfile, rollovers, streamVars,
                   df, daily_primary, prev_symbol>>

(* one iteration of the back-adjustment loop, most recent rollover first *)
AdjustStep ==
    /\ job = "mem" /\ pc = "adjust" /\ pos < Len(rollovers)
    /\ LET r == rollovers[Len(rollovers) - pos]
       IN /\ cumulative' = cumulative + r.spread
          /\ out' = SubtractBefore(out, find_rollover_minute(r), r.spread)
    /\ pos' = pos + 1
    /\ UNCHANGED <<job, present, pc, args, src, logfile, rollovers, streamVars,
                   df, daily_primary, prev_symbol>>

(* main, lines 277-291: the continuous series and the rollover log are saved *)
MemSave ==
    /\ job = "mem" /\ pc = "adjust" /\ pos = Len(rollovers)
    /\ out' = [k \in 1..Len(out) |->
                 [ts_event |-> out[k].ts_event,
                  open |-> out[k].open, high |-> out[k].high,
                  low |-> out[k].low, close |-> out[k].close,
                  volume |-> out[k].volume, symbol |-> "ES_continuous",
                  contract |-> out[k].symbol]]
    /\ logfile' = rollovers
    /\ pc' = "done"
    /\ UNCHANGED <<job, present, args, src, rollovers, pos, streamVars, memVars>>

-----------------------------------------------------------------------------

Init == AuxInit \/ StreamInit \/ MemInit

Next ==
    \/ AuxLoadRollovers \/ AuxWriteRow \/ AuxFinish
    \/ StreamMissing \/ StreamLoad \/ Pass1Row \/ Pass1Finish \/ Pass2Row \/ Pass2Finish
    \/ MemLoad \/ MemDailyPrimary \/ DetectStep \/ DetectDone
    \/ SpreadStep \/ MemFilter \/ AdjustStep \/ MemSave

Spec == Init /\ [][Next]_vars

-----------------------------------------------------------------------------
(* Observations used by the properties *)

Running == pc \in {"pass2", "done"}

(* the source row an output bar was made from *)
RawOf(o) ==
    src[CHOOSE k \in 1..Len(src) :
            src[k].ts_event = o.ts_event /\ src[k].symbol = o.contract]

Unadjusted(o) ==
    /\ o.open = RawOf(o).open /\ o.high = RawOf(o).high
    /\ o.low = RawOf(o).low /\ o.close = RawOf(o).close

SpreadsOf(rs) == [k \in 1..Len(rs) |-> rs[k].spread]

(* the rollovers whose switch is strictly after ts / at or after ts *)
StrictlyAfter(rs, ts) ==
    LET T(r) == MidnightOf(r.date) > ts IN SelectSeq(rs, T)

AtOrAfter(rs, ts) ==
    LET T(r) == MidnightOf(r.date) >= ts IN SelectSeq(rs, T)

Primaries == [k \in 1..Len(daily_primary) |-> daily_primary[k].primary]

FinalSwitch == MidnightOf(Last(rollovers).date)

-----------------------------------------------------------------------------
(* C1  Continuity: two adjacent output bars that straddle a rollover boundary, the
   earlier one of the outgoing contract and the later one of the incoming contract,
   differ in adjusted close by |raw jump - spread| in absolute value. *)
C1_ContinuityAbsorbed ==
    (job \in {"mem", "stream"} /\ pc = "done") =>
        \A j \in 1..Len(rollovers) : \A k \in 1..(Len(out) - 1) :
            ( /\ out[k].ts_event < MidnightOf(rollovers[j].date)
              /\ out[k + 1].ts_event >= MidnightOf(rollovers[j].date)
              /\ out[k].contract = rollovers[j].from_symbol
              /\ out[k + 1].contract = rollovers[j].to_symbol )
            => Abs(out[k + 1].close - out[k].close)
               = Abs(RawOf(out[k + 1]).close - RawOf(out[k]).close
                     - rollovers[j].spread)

(* C2  Return preservation: two output bars of the same original contract differ in
   adjusted close exactly as they differ in raw close. *)
C2_ReturnPreserved ==
    (job \in {"mem", "stream"} /\ pc = "done") =>
        \A a \in 1..Len(out) : \A b \in 1..Len(out) :
            out[a].contract = out[b].contract
            => out[b].close - out[a].close = RawOf(out[b]).close - RawOf(out[a]).close

(* C3 as stated: the three adjustments agree and the auxiliary adjuster writes, for a
   level equal to the bar's raw close, the identical adjusted value. *)
C3_AuxValueIdentical ==
    (job = "stream" /\ Running) =>
        \A k \in 1..Len(out) :
            Round2(RawOf(out[k]).close
                   + compute_adjustment(out[k].ts_event, load_rollovers(logfile)))
            = out[k].close

(* C3 amended: for a rollover log sorted by date and a source sorted by timestamp, the
   adjustment the forward interval scan gives a written bar equals
   compute_adjustment at the bar's timestamp and equals the total the reverse loop
   subtracts; a level equal to the bar's raw close is written as the bar's adjusted
   close rounded to two decimals. *)
C3_AuxAlignment ==
    (job = "stream" /\ Running) =>
        \A k \in 1..Len(out) :
            LET aux == compute_adjustment(out[k].ts_event, load_rollovers(logfile))
                mem == BackAdjust(<< RawOf(out[k]) >>, rollovers, Len(rollovers))[1]
            IN /\ out[k].close - RawOf(out[k]).close = aux
               /\ mem.close = out[k].close
               /\ Round2(RawOf(out[k]).close + aux) = Round2(out[k].close)

C3_Witness ==
    /\ job = "stream" /\ pc = "done" /\ Len(out) = 2 /\ Len(rollovers) = 2
    /\ out[1].close # RawOf(out[1]).close
    /\ out[2].ts_event = MidnightOf(rollovers[1].date)

(* C4  Zero adjustment: for a nonempty rollover list the last interval has adjustment
   0, and a bar at or after the final rollover's boundary is written with its raw
   open, high, low and close: by the streaming engine, by the in-memory engine, and
   (no adjustment added to a level) by the auxiliary adjuster. *)
C4_ZeroAdjustment ==
    /\ (job = "stream" /\ pc # "load" /\ rollovers # <<>>) =>
          /\ Last(intervals).adjustment = 0
          /\ \A k \in 1..Len(out) :
                out[k].ts_event >= FinalSwitch => Unadjusted(out[k])
    /\ (job = "mem" /\ pc = "done" /\ rollovers # <<>>) =>
          \A k \in 1..Len(out) :
                out[k].ts_event >= FinalSwitch => Unadjusted(out[k])
    /\ (job = "aux" /\ pc # "load" /\ rollovers # <<>>) =>
          \A k \in 1..Len(out) :
                src[k].unix_timestamp >= Last(rollovers).switch_ms
                => /\ compute_adjustment(src[k].unix_timestamp, rollovers) = 0
                   /\ \A i \in 1..5 : out[k].levels[i] = Round2(src[k].levels[i])

C4_Witness ==
    /\ job = "stream" /\ pc = "done" /\ rollovers # <<>> /\ Len(out) = 2
    /\ out[1].ts_event < FinalSwitch /\ ~Unadjusted(out[1])
    /\ out[2].ts_event = FinalSwitch

(* C5  Suffix sums: n rollovers give n+1 intervals; the first has boundary "" and
   adjustment minus the sum of all spreads; the interval starting at rollover i's
   boundary has adjustment minus the sum of the spreads after i; an empty list gives
   the single interval ("", 0). *)
C5_SuffixSums ==
    (job = "stream" /\ pc \notin {"load", "exit1"}) =>
        LET n == Len(rollovers)
            sp == SpreadsOf(rollovers)
        IN /\ Len(intervals) = n + 1
           /\ intervals[1].boundary = EmptyBoundary
           /\ intervals[1].adjustment = -SeqSum(sp)
           /\ \A i \in 1..n :
                 /\ intervals[i + 1].boundary = MidnightOf(rollovers[i].date)
                 /\ intervals[i + 1].adjustment = -SeqSum(SubSeq(sp, i + 1, n))
           /\ n = 0 => intervals = << [boundary |-> EmptyBoundary, adjustment |-> 0] >>

C5_Witness ==
    /\ job = "stream" /\ pc = "pass1" /\ Len(rollovers) = 2
    /\ intervals[1].adjustment # 0 /\ intervals[2].adjustment # 0

(* C6  Flicker rejection: a rollover to X is emitted at bucket i only if X differs
   from the baseline and X is primary in at least 2 of the buckets i..i+4; the
   sequence A,A,B,A,A,A yields no rollover and A,A,B,B,B,B yields exactly one
   rollover A->B dated at the first B. *)
C6_FlickerRejection ==
    (job = "mem" /\ pc \in {"detect", "spreads", "adjust", "done"}) =>
        /\ \A j \in 1..Len(rollovers) :
              \E i \in 1..Len(daily_primary) :
                 /\ daily_primary[i].date = rollovers[j].date
                 /\ daily_primary[i].primary = rollovers[j].to_symbol
                 /\ rollovers[j].to_symbol # rollovers[j].from_symbol
                 /\ Cardinality({ m \in i..(i + 4) :
                        m <= Len(daily_primary)
                        /\ daily_primary[m].primary = rollovers[j].to_symbol }) >= 2
        /\ (pc # "detect" /\ Primaries = <<"ESA", "ESA", "ESB", "ESA", "ESA", "ESA">>)
              => rollovers = <<>>
        /\ (pc # "detect" /\ Primaries = <<"ESA", "ESA", "ESB", "ESB", "ESB", "ESB">>)
              => /\ Len(rollovers) = 1
                 /\ rollovers[1].from_symbol = "ESA"
                 /\ rollovers[1].to_symbol = "ESB"
                 /\ rollovers[1].date = daily_primary[3].date

C6_Witness ==
    /\ job = "mem" /\ pc = "spreads"
    /\ Primaries = <<"ESA", "ESA", "ESB", "ESA", "ESA", "ESA">>
    /\ rollovers = <<>>

(* C7  End-to-end scenario: contracts ESA (days 1-10), ESB (days 8-20, 5.00 above ESA)
   and ESC (days 18-30, 3.00 below ESB), the primary switching once to ESB and once to
   ESC: exactly two rollovers with spreads +5.00 and -3.00, every day-1 bar is written
   with raw close - 2.00 and every day-25 bar with its raw close. *)
C7_EndToEnd ==
    (job = "mem" /\ pc = "done" /\ src \in ScenarioFiles) =>
        /\ Len(rollovers) = 2
        /\ rollovers[1].from_symbol = "ESA" /\ rollovers[1].to_symbol = "ESB"
        /\ rollovers[2].from_symbol = "ESB" /\ rollovers[2].to_symbol = "ESC"
        /\ rollovers[1].spread = 1000
        /\ rollovers[2].spread = -600
        /\ \A k \in 1..Len(out) :
              /\ DateOf(out[k].ts_event) = 1 => out[k].close = RawOf(out[k]).close - 400
              /\ DateOf(out[k].ts_event) = 25 => out[k].close = RawOf(out[k]).close

C7_Witness ==
    /\ job = "mem" /\ pc = "done" /\ src \in ScenarioFiles
    /\ \E k \in 1..Len(out) : DateOf(out[k].ts_event) = 1 /\ out[k].contract = "ESA"
    /\ \E k \in 1..Len(out) : DateOf(out[k].ts_event) = 25 /\ out[k].contract = "ESC"

(* the spread compute_rollover_spreads would give the rollover with the two contracts
   exchanged, at the same switch date *)
Exchanged(r) == SpreadOf(df, r.date, r.to_symbol, r.from_symbol)

SpreadsDone == IF pc = "spreads" THEN pos ELSE Len(rollovers)

(* C8 as stated: whenever both directions yield a spread, overlap or fallback, the
   two are negations of each other. *)
C8_SpreadAntisymmetric ==
    (job = "mem" /\ pc \in {"spreads", "adjust", "done"}) =>
        \A j \in 1..SpreadsDone :
            Exchanged(rollovers[j]).ok
            => Exchanged(rollovers[j]).spread = -rollovers[j].spread

(* C8 amended: when the two contracts have overlapping bars in the window, the spread
   (median of to_close - from_close) is the negation of the spread with the contracts
   exchanged; the last/first-price fallback has no such symmetry. *)
C8_OverlapAntisymmetric ==
    (job = "mem" /\ pc \in {"spreads", "adjust", "done"}) =>
        \A j \in 1..SpreadsDone :
            rollovers[j].overlap_bars > 0
            => /\ Exchanged(rollovers[j]).ok
               /\ Exchanged(rollovers[j]).overlap_bars = rollovers[j].overlap_bars
               /\ Exchanged(rollovers[j]).spread = -rollovers[j].spread

C8_Witness ==
    /\ job = "mem" /\ pc = "done" /\ src \notin ScenarioFiles
    /\ \E j \in 1..Len(rollovers) :
          /\ rollovers[j].overlap_bars = 2
          /\ rollovers[j].spread_min < rollovers[j].spread_max

(* C9 as stated: in every finished run the last output bar carries its raw open, high,
   low and close. *)
C9_LastBarRaw ==
    (job \in {"mem", "stream"} /\ pc = "done" /\ out # <<>>) => Unadjusted(Last(out))

(* C9 amended: the in-memory engine, which detects the rollovers in the loaded data,
   writes its last bar raw; the streaming engine, which takes them from the log,
   writes its last bar shifted by minus the sum of the spreads of the log's rollovers
   dated after the bar, which is 0 only from the final boundary on. *)
C9_LastBarShift ==
    /\ (job = "mem" /\ pc = "done" /\ out # <<>>) => Unadjusted(Last(out))
    /\ (job = "stream" /\ pc = "done" /\ out # <<>>) =>
          LET late == -SeqSum(SpreadsOf(StrictlyAfter(rollovers, Last(out).ts_event)))
          IN /\ Last(out).open = RawOf(Last(out)).open + late
             /\ Last(out).high = RawOf(Last(out)).high + late
             /\ Last(out).low = RawOf(Last(out)).low + late
             /\ Last(out).close = RawOf(Last(out)).close + late

C9_Witness ==
    /\ job = "stream" /\ pc = "done" /\ out # <<>> /\ rollovers # <<>>
    /\ Last(out).ts_event < FinalSwitch
    /\ ~Unadjusted(Last(out))

(* the loaded rollovers whose switch_ms is after ts / at or after ts *)
SwitchAfter(rs, ts) ==
    LET T(r) == r.switch_ms > ts IN SelectSeq(rs, T)

SwitchAtOrAfter(rs, ts) ==
    LET T(r) == r.switch_ms >= ts IN SelectSeq(rs, T)

(* C10 as stated: the adjustment of a record is the sum of -spread over the rollovers
   whose switch timestamp is at or after the record's timestamp. *)
C10_AtOrAfter ==
    (job = "aux" /\ pc # "load") =>
        \A k \in 1..Len(out) :
            compute_adjustment(src[k].unix_timestamp, rollovers)
            = -SeqSum(SpreadsOf(SwitchAtOrAfter(rollovers, src[k].unix_timestamp)))

(* C10 amended: the adjustment of a record is the sum of -spread over the rollovers
   whose switch timestamp is strictly after the record's timestamp (a rollover whose
   switch equals the timestamp is left out), and each level is written as the raw
   level plus that sum, rounded to two decimals. *)
C10_StrictlyAfter ==
    (job = "aux" /\ pc # "load") =>
        \A k \in 1..Len(out) :
            LET total == -SeqSum(SpreadsOf(SwitchAfter(rollovers, src[k].unix_timestamp)))
            IN /\ compute_adjustment(src[k].unix_timestamp, rollovers) = total
               /\ \A lv \in 1..5 : out[k].levels[lv] = Round2(src[k].levels[lv] + total)

C10_Witness ==
    /\ job = "aux" /\ pc = "done" /\ Len(rollovers) = 2 /\ out # <<>>
    /\ src[1].unix_timestamp = rollovers[1].switch_ms
    /\ out[1].levels[1] = Round2(src[1].levels[1] - rollovers[2].spread)

(* C11 as stated: the lower bound of an interval is exclusive, a bar exactly on a
   rollover boundary is given the adjustment of the interval before the boundary. *)
C11_BoundaryExclusive ==
    (job = "stream" /\ Running) =>
        \A k \in 1..Len(out) : \A j \in 1..Len(rollovers) :
            out[k].ts_event = MidnightOf(rollovers[j].date)
            => out[k].close - RawOf(out[k]).close = intervals[j].adjustment

(* C11 amended: the lower bound of an interval is inclusive.  A bar exactly on the
   boundary of rollover j is given the adjustment of the interval that starts at the
   boundary (streaming engine), and is not shifted by rollover j's spread, only by
   those of the later rollovers (in-memory engine). *)
C11_BoundaryInclusive ==
    /\ (job = "stream" /\ Running) =>
          \A k \in 1..Len(out) : \A j \in 1..Len(rollovers) :
              out[k].ts_event = MidnightOf(rollovers[j].date)
              => out[k].close - RawOf(out[k]).close = intervals[j + 1].adjustment
    /\ (job = "mem" /\ pc = "done") =>
          \A k \in 1..Len(out) : \A j \in 1..Len(rollovers) :
              out[k].ts_event = MidnightOf(rollovers[j].date)
              => out[k].close - RawOf(out[k]).close
                 = -SeqSum(SubSeq(SpreadsOf(rollovers), j + 1, Len(rollovers)))

C11_Witness ==
    /\ job = "mem" /\ pc = "done"
    /\ \E k \in 1..Len(out) : \E j \in 1..Len(rollovers) :
          /\ out[k].ts_event = MidnightOf(rollovers[j].date)
          /\ rollovers[j].spread # 0
          /\ k > 1 /\ ~Unadjusted(out[k - 1])

(* the rows of the source read so far that the three filters of pass 2 let through,
   stated from the row's own fields *)
InBounds(ts) ==
    /\ args.start = NoDate \/ DateOf(ts) >= args.start
    /\ args.end = NoDate \/ DateOf(ts) <= args.end

RetainedRow(row) ==
    /\ "symbol" \in DOMAIN row
    /\ row.symbol # SpreadSymbol
    /\ InBounds(row.ts_event)
    /\ (row.ts_event \div TicksPerHour) \in DOMAIN primary_per_hour
    /\ primary_per_hour[row.ts_event \div TicksPerHour] = row.symbol

RetainedSoFar == SelectSeq(SubSeq(src, 1, pos), RetainedRow)

(* C12  Primary-contract filter: the rows pass 2 has written are exactly the rows read
   so far that are no calendar spread, lie within the date bounds and carry the
   primary contract of their hour bucket, one output row per such row, in source
   order. *)
C12_PrimaryFilter ==
    (job = "stream" /\ Running) =>
        /\ Len(out) = Len(RetainedSoFar)
        /\ cnt.written = Len(out)
        /\ \A k \in 1..Len(out) :
              /\ out[k].ts_event = RetainedSoFar[k].ts_event
              /\ out[k].contract = RetainedSoFar[k].symbol
              /\ out[k].volume = RetainedSoFar[k].volume

C12_Witness ==
    /\ job = "stream" /\ pc = "done" /\ Len(src) = 2
    /\ cnt.written = 1 /\ cnt.skipped_non_primary = 1
    /\ out[1].ts_event = src[2].ts_event /\ out[1].contract = src[2].symbol

(* C13  Calendar-spread exclusion: a symbol with a dash never has an entry in a
   bucket's accumulated volume, is never a bucket's primary, is never in the frame
   the spreads are computed from nor a side of a rollover, and never appears in the
   output. *)
C13_NoCalendarSpread ==
    /\ \A hk \in DOMAIN hourly_volume : \A k \in 1..Len(hourly_volume[hk]) :
          hourly_volume[hk][k].symbol # SpreadSymbol
    /\ \A hk \in DOMAIN primary_per_hour : primary_per_hour[hk] # SpreadSymbol
    /\ \A k \in 1..Len(df) : df[k].symbol # SpreadSymbol
    /\ \A k \in 1..Len(daily_primary) : daily_primary[k].primary # SpreadSymbol
    /\ job = "mem" =>
          \A k \in 1..Len(rollovers) :
              /\ rollovers[k].from_symbol # SpreadSymbol
              /\ rollovers[k].to_symbol # SpreadSymbol
    /\ (job = "mem" /\ pc = "adjust") =>
          \A k \in 1..Len(out) : out[k].symbol # SpreadSymbol
    /\ (job \in {"mem", "stream"} /\ pc = "done") =>
          \A k \in 1..Len(out) : out[k].contract # SpreadSymbol

C13_Witness ==
    /\ job = "mem" /\ pc = "done" /\ out # <<>>
    /\ \E k \in 1..Len(src) :
          /\ src[k].symbol = SpreadSymbol
          /\ \A j \in 1..Len(src) :
                DateOf(src[j].ts_event) = DateOf(src[k].ts_event)
                => src[j].volume <= src[k].volume

(* the rows of the source that pass 1 accumulates, and the volume a symbol has in an
   hour bucket, summed over them *)
CountedRow(row) ==
    /\ "symbol" \in DOMAIN row
    /\ row.symbol # SpreadSymbol
    /\ InBounds(row.ts_event)

CountedRows == SelectSeq(src, CountedRow)

HourVolume(hk, symbol) ==
    LET InHour(row) == row.ts_event \div TicksPerHour = hk /\ row.symbol = symbol
        rows == SelectSeq(CountedRows, InHour)
    IN SeqSum([k \in 1..Len(rows) |-> rows[k].volume])

(* C14  Dominance resolution: the buckets that have a primary are exactly the buckets
   holding a retained bar, each has one primary, and no contract has more accumulated
   volume in the bucket than the primary; per hour in the streaming engine, per day
   in the in-memory engine. *)
C14_Dominance ==
    /\ (job = "stream" /\ Running) =>
          /\ DOMAIN primary_per_hour
             = { CountedRows[k].ts_event \div TicksPerHour : k \in 1..Len(CountedRows) }
          /\ \A hk \in DOMAIN primary_per_hour : \A k \in 1..Len(CountedRows) :
                CountedRows[k].ts_event \div TicksPerHour = hk
                => HourVolume(hk, CountedRows[k].symbol)
                   <= HourVolume(hk, primary_per_hour[hk])
    /\ (job = "mem" /\ pc \in {"detect", "spreads", "adjust", "done"}) =>
          /\ { daily_primary[k].date : k \in 1..Len(daily_primary) }
             = { DateOf(df[k].ts_event) : k \in 1..Len(df) }
          /\ \A k \in 1..Len(daily_primary) : \A j \in 1..Len(daily_primary) :
                k # j => daily_primary[k].date # daily_primary[j].date
          /\ \A k \in 1..Len(daily_primary) : \A j \in 1..Len(df) :
                DateOf(df[j].ts_event) = daily_primary[k].date
                => VolumeOn(df, daily_primary[k].date, df[j].symbol)
                   <= VolumeOn(df, daily_primary[k].date, daily_primary[k].primary)

C14_Witness ==
    /\ job = "stream" /\ pc = "done"
    /\ \E hk \in DOMAIN hourly_volume :
          /\ Len(hourly_volume[hk]) = 2
          /\ hourly_volume[hk][1].volume > hourly_volume[hk][2].volume
          /\ primary_per_hour[hk] = hourly_volume[hk][1].symbol

(* C15  Forward interval scan: pass 2's interval index never decreases, and the
   interval it stands on after a bar is written is the one enclosing the bar: its
   boundary is at or before the bar's timestamp, the next interval's boundary is
   after it, and the bar carries that interval's adjustment. *)
C15_ForwardScan ==
    /\ []((job = "stream" /\ Running /\ out # <<>>) =>
            /\ intervals[interval_idx + 1].boundary <= Last(out).ts_event
            /\ interval_idx + 1 < Len(intervals)
               => intervals[interval_idx + 2].boundary > Last(out).ts_event
            /\ \A j \in 1..Len(intervals) :
                  intervals[j].boundary <= Last(out).ts_event => j <= interval_idx + 1
            /\ Last(out).close - RawOf(Last(out)).close
               = intervals[interval_idx + 1].adjustment)
    /\ [][interval_idx' >= interval_idx]_vars

C15_Witness ==
    /\ job = "stream" /\ pc = "done"
    /\ Len(rollovers) = 2 /\ Len(out) = 1 /\ interval_idx = 2
    /\ cnt.skipped_non_primary = 1

(* C16  Missing input is fatal before output: when the bar file or the rollover log
   does not exist the streaming job goes from its start straight to exit status 1;
   the log is never loaded, no interval is built, no row is read by either pass and
   nothing is written. *)
C16_MissingInputFatal ==
    (job = "stream" /\ ~(present.src /\ present.log)) =>
        /\ pc \in {"load", "exit1"}
        /\ rollovers = <<>> /\ intervals = <<>>
        /\ hourly_volume = <<>> /\ primary_per_hour = <<>>
        /\ cnt = ZeroCnt /\ pos = 0
        /\ out = <<>>

C16_Witness ==
    /\ job = "stream" /\ pc = "exit1"
    /\ present.src /\ ~present.log
    /\ src # <<>>

(* a row whose field count is not the header's *)
Malformed(row) == DOMAIN row # DOMAIN Bar(0, "ESA", 1)

(* C17  Malformed row is fatal in streaming mode: once a pass has read a row with too
   few or too many fields the job has aborted, and nothing of the output series is
   written. *)
C17_MalformedFatal ==
    (job = "stream" /\ pc \in {"pass1", "pass2", "done", "crash"}) =>
        ((\E k \in 1..pos : Malformed(src[k])) => (pc = "crash" /\ out = <<>>))

(* the timestamps within 12 hours of the switch of rollover r at which the loaded data
   holds a bar of the outgoing and a bar of the incoming contract *)
OverlapTimes(r) ==
    { df[i].ts_event : i \in { j \in 1..Len(df) :
        /\ df[j].symbol = r.from_symbol
        /\ df[j].ts_event >= MidnightOf(r.date) - HalfDay
        /\ df[j].ts_event <= MidnightOf(r.date) + HalfDay
        /\ \E m \in 1..Len(df) : /\ df[m].symbol = r.to_symbol
                                 /\ df[m].ts_event = df[j].ts_event } }

(* bar i is the first bar of the incoming contract at or after the switch of r *)
FirstIncoming(r, i) ==
    /\ df[i].symbol = r.to_symbol /\ df[i].ts_event >= MidnightOf(r.date)
    /\ \A j \in 1..(i - 1) :
          ~(df[j].symbol = r.to_symbol /\ df[j].ts_event >= MidnightOf(r.date))

(* bar i is the last bar of the outgoing contract before the switch of r *)
LastOutgoing(r, i) ==
    /\ df[i].symbol = r.from_symbol /\ df[i].ts_event < MidnightOf(r.date)
    /\ \A j \in (i + 1)..Len(df) :
          ~(df[j].symbol = r.from_symbol /\ df[j].ts_event < MidnightOf(r.date))

(* C18  No-overlap fallback: the job never aborts once rollovers are detected, so every
   rollover gets a spread; its overlap count is the number of timestamps in the window that have a bar of both contracts, and when
   that number is 0 its spread is the first close of the incoming contract at or after
   the switch minus the last close of the outgoing contract before the switch. *)
C18_NoOverlapFallback ==
    job = "mem" =>
        /\ (pc = "crash" => rollovers = <<>>)
        /\ pc \in {"spreads", "adjust", "done"} =>
           \A k \in 1..SpreadsDone :
              LET r == rollovers[k]
              IN /\ r.overlap_bars = Cardinality(OverlapTimes(r))
                 /\ (OverlapTimes(r) = {}) =>
                       \E i, j \in 1..Len(df) :
                          /\ FirstIncoming(r, i) /\ LastOutgoing(r, j)
                          /\ r.spread = df[i].close - df[j].close
                          /\ r.spread_min = r.spread /\ r.spread_max = r.spread

C18_Witness ==
    /\ job = "mem" /\ pc = "done"
    /\ \E k \in 1..Len(rollovers) :
          /\ rollovers[k].overlap_bars = 0
          /\ rollovers[k].spread # 0

OutputColumns ==
    {"ts_event", "open", "high", "low", "close", "volume", "symbol", "contract"}

(* output bar o was made from source row i with one shift on its four prices *)
MadeFrom(o, i) ==
    /\ ~FieldMissing(src[i])
    /\ o.ts_event = src[i].ts_event
    /\ o.contract = src[i].symbol
    /\ o.volume = src[i].volume
    /\ o.open - src[i].open = o.close - src[i].close
    /\ o.high - src[i].high = o.close - src[i].close
    /\ o.low - src[i].low = o.close - src[i].close

(* C19  Volume and identity preserved: every bar written by the streaming engine and
   every bar saved by the in-memory engine has the timestamp and the volume of a source
   row, that row's symbol in its contract column, the fixed symbol ES_continuous, and
   open, high, low and close all moved by one and the same amount. *)
C19_IdentityPreserved ==
    (job = "stream" \/ (job = "mem" /\ pc = "done")) =>
        \A k \in 1..Len(out) :
            /\ DOMAIN out[k] = OutputColumns
            /\ out[k].symbol = "ES_continuous"
            /\ \E i \in 1..Len(src) : MadeFrom(out[k], i)

C19_Witness ==
    /\ job = "mem" /\ pc = "done"
    /\ \E k \in 1..Len(out) : \E i \in 1..Len(src) :
          /\ MadeFrom(out[k], i)
          /\ out[k].close # src[i].close
    /\ \E k \in 1..Len(out) : \E i \in 1..Len(src) :
          /\ MadeFrom(out[k], i)
          /\ out[k].close = src[i].close

(* a well-formed non-spread row whose calendar date lies outside the bounds *)
OutOfBoundsRow(row) ==
    /\ "symbol" \in DOMAIN row
    /\ row.symbol # SpreadSymbol
    /\ ~InBounds(row.ts_event)

(* C20  Inclusive date bounds: the in-memory engine loads exactly the non-spread rows
   whose calendar date d satisfies start <= d <= end, and each pass of the streaming
   engine skips for their date exactly the non-spread rows whose date does not. *)
C20_InclusiveBounds ==
    /\ (job = "mem" /\ pc \in {"primary", "detect", "spreads", "adjust", "done"}) =>
          \A i \in 1..Len(src) :
              (src[i].symbol # SpreadSymbol /\ InBounds(src[i].ts_event))
              <=> (\E j \in 1..Len(df) : df[j] = src[i])
    /\ (job = "stream" /\ pc \in {"pass1", "pass2", "done"}) =>
          cnt.skipped_date = Len(SelectSeq(SubSeq(src, 1, pos), OutOfBoundsRow))

(* the spreads of the log do not cancel: none is zero and all have one sign *)
SameSign(rs) ==
    \/ \A k \in 1..Len(rs) : rs[k].spread > 0
    \/ \A k \in 1..Len(rs) : rs[k].spread < 0

(* C21  Adjustment magnitude is monotonic into the past: when the spreads of the
   rollover log are all nonzero and of one sign, every interval's adjustment is
   strictly larger in absolute value than that of the interval after it. *)
C21_MonotonicMagnitude ==
    (job = "stream" /\ pc \notin {"load", "exit1"} /\ SameSign(rollovers)) =>
        \A i \in 1..(Len(intervals) - 1) :
            Abs(intervals[i].adjustment) > Abs(intervals[i + 1].adjustment)

C21_Witness ==
    /\ job = "stream" /\ pc = "pass1"
    /\ Len(rollovers) >= 2 /\ SameSign(rollovers)
    /\ Len(intervals) = Len(rollovers) + 1
    /\ rollovers[1].spread < 0

(* C22  Row accounting: throughout and at the end of pass 2 the rows read equal the
   rows written plus the rows skipped as calendar spread, as outside the date range
   and as non-primary; at the end every source row has been read; and no counter
   ever decreases during the pass. *)
C22_RowAccounting ==
    /\ []((job = "stream" /\ pc \in {"pass2", "done"}) =>
            /\ cnt.row_count = cnt.written + cnt.skipped_spreads
                               + cnt.skipped_date + cnt.skipped_non_primary
            /\ cnt.row_count = pos
            /\ cnt.written = Len(out)
            /\ (pc = "done" => cnt.row_count = Len(src)))
    /\ [][(job = "stream" /\ pc = "pass2") =>
            \A f \in DOMAIN cnt : cnt'[f] >= cnt[f]]_vars

C22_Witness ==
    /\ job = "stream" /\ pc = "done"
    /\ cnt.written > 0 /\ cnt.skipped_date > 0

(* the number of the buckets i..i+4 (1-based) whose primary is sym *)
DominantDays(i, sym) ==
    Cardinality({ m \in i..(i + LookAheadDays - 1) :
                    m <= Len(daily_primary) /\ daily_primary[m].primary = sym })

(* C23  Baseline retention after flicker: a step of the detector at a bucket whose
   primary is the baseline, or differs from it without being primary in 2 of the 5
   buckets from there on, or is the final bucket, emits nothing and leaves the
   baseline as it was; a step that emits a rollover emits one from the baseline to the
   bucket's primary and makes that primary the baseline. *)
C23_BaselineRetention ==
    [][(job = "mem" /\ pc = "detect" /\ pos' = pos + 1) =>
          LET curr == daily_primary[pos + 1].primary
              quiet == rollovers' = rollovers /\ prev_symbol' = prev_symbol
          IN /\ (curr = prev_symbol) => quiet
             /\ (curr # prev_symbol /\ DominantDays(pos + 1, curr) < 2) => quiet
             /\ (pos + 1 = Len(daily_primary)) => quiet
             /\ (rollovers' = rollovers) => (prev_symbol' = prev_symbol)
             /\ (rollovers' # rollovers) =>
                   /\ rollovers' = Append(rollovers, Last(rollovers'))
                   /\ Last(rollovers').from_symbol = prev_symbol
                   /\ Last(rollovers').to_symbol = curr
                   /\ prev_symbol' = curr]_vars

(* a rejected change to a third contract precedes the first rollover *)
C23_Witness ==
    /\ job = "mem" /\ pc = "spreads"
    /\ Len(rollovers) >= 1
    /\ rollovers[1].from_symbol = daily_primary[1].primary
    /\ \E i \in 2..Len(daily_primary) :
          /\ daily_primary[i].date < rollovers[1].date
          /\ daily_primary[i].primary # rollovers[1].from_symbol
          /\ daily_primary[i].primary # rollovers[1].to_symbol
    /\ daily_primary[Len(daily_primary)].primary # rollovers[Len(rollovers)].to_symbol

(* date, outgoing and incoming contract of a rollover event *)
EventKey(r) == <<r.date, r.from_symbol, r.to_symbol>>

(* C24  Rollover sequence well-formedness: the emitted events have strictly increasing
   dates, each goes from one contract to a different one, the first leaves the primary
   of the first bucket and each later one leaves the contract the previous one went
   to; attaching the spreads changes neither the number or order of the events nor
   their date, outgoing or incoming contract. *)
C24_WellFormed ==
    /\ []((job = "mem" /\ pc \in {"detect", "spreads", "adjust", "done"}) =>
            /\ \A k \in 1..Len(rollovers) :
                  /\ rollovers[k].from_symbol # rollovers[k].to_symbol
                  /\ rollovers[k].from_symbol =
                        (IF k = 1 THEN daily_primary[1].primary
                         ELSE rollovers[k - 1].to_symbol)
            /\ \A k \in 1..(Len(rollovers) - 1) :
                  rollovers[k].date < rollovers[k + 1].date)
    /\ [][(job = "mem" /\ pc \in {"spreads", "adjust"}) =>
            /\ Len(rollovers') = Len(rollovers)
            /\ \A k \in 1..Len(rollovers) :
                  EventKey(rollovers'[k]) = EventKey(rollovers[k])]_vars

C24_Witness ==
    /\ job = "mem" /\ pc = "done"
    /\ Len(rollovers) >= 2
    /\ rollovers[2].spread # 0
    /\ logfile = rollovers

(* the positions in CountedRows of the rows of bucket hk whose contract has the
   maximal accumulated volume of the bucket *)
TiedRows(hk) ==
    { k \in 1..Len(CountedRows) :
        /\ CountedRows[k].ts_event \div TicksPerHour = hk
        /\ \A j \in 1..Len(CountedRows) :
              CountedRows[j].ts_event \div TicksPerHour = hk
              => HourVolume(hk, CountedRows[j].symbol)
                 <= HourVolume(hk, CountedRows[k].symbol) }

(* C25  Deterministic tie-break: the primary of every hour bucket is determined by the
   source rows and the date bounds alone: it is the contract of the earliest row of
   the bucket, among the rows that pass the calendar-spread and date filters, whose
   contract has the maximal accumulated volume. *)
C25_TieBreak ==
    (job = "stream" /\ Running) =>
        \A hk \in DOMAIN primary_per_hour :
            /\ TiedRows(hk) # {}
            /\ \E k \in TiedRows(hk) :
                  /\ \A j \in TiedRows(hk) : k <= j
                  /\ primary_per_hour[hk] = CountedRows[k].symbol

C25_Witness ==
    /\ job = "stream" /\ pc = "done"
    /\ \E hk \in DOMAIN primary_per_hour :
          /\ HourVolume(hk, "ESA") = HourVolume(hk, "ESB")
          /\ HourVolume(hk, "ESA") > 0
          /\ primary_per_hour[hk] = "ESB"
    /\ out # <<>>

(* the adjustment of input record k: minus the spreads of the rollovers that switch
   strictly after its timestamp *)
AuxTotal(k) == -SeqSum(SpreadsOf(SwitchAfter(rollovers, src[k].unix_timestamp)))

(* y is x rounded to a whole cent, a half-cent going to the even cent *)
RoundedToCent(x, y) ==
    /\ y % 2 = 0
    /\ Abs(y - x) <= 1
    /\ (x % 2 # 0) => (y \div 2) % 2 = 0

(* the records written so far answer the records read so far, one for one, with the
   timestamp and the sentiment copied *)
AuxShape ==
    /\ Len(out) = pos
    /\ pc = "done" => Len(out) = Len(src)
    /\ \A k \in 1..Len(out) :
          /\ DOMAIN out[k] = DOMAIN src[k]
          /\ out[k].unix_timestamp = src[k].unix_timestamp
          /\ out[k].sentiment = src[k].sentiment

(* C26 as stated: one output record per input record in the same order, timestamp and
   sentiment copied, and each of the five levels is the input level plus the record's
   adjustment. *)
C26_ExactShift ==
    (job = "aux" /\ pc \in {"rows", "done"}) =>
        /\ AuxShape
        /\ \A k \in 1..Len(out) : \A lv \in 1..5 :
              out[k].levels[lv] = src[k].levels[lv] + AuxTotal(k)

(* C26 amended: one output record per input record in the same order, timestamp and
   sentiment copied, each of the five levels is the input level plus the record's one
   adjustment, rounded to two decimals, a written record is never changed, and the
   loaded rollover list does not change while records are processed. *)
C26_AuxFrame ==
    /\ []((job = "aux" /\ pc \in {"rows", "done"}) =>
            /\ AuxShape
            /\ \A k \in 1..Len(out) : \A lv \in 1..5 :
                  RoundedToCent(src[k].levels[lv] + AuxTotal(k), out[k].levels[lv]))
    /\ [][(job = "aux" /\ pc = "rows") =>
            /\ rollovers' = rollovers
            /\ src' = src
            /\ SubSeq(out', 1, Len(out)) = out]_vars

C26_Witness ==
    /\ job = "aux" /\ pc = "done" /\ Len(out) = 2
    /\ AuxTotal(1) # 0
    /\ out[1].levels[1] # src[1].levels[1] + AuxTotal(1)
    /\ out[2].levels[1] = src[2].levels[1]

(* the 0-based index of the adjustment interval holding ts: the number of rollover
   boundaries at or before ts *)
IntervalOf(ts) ==
    Cardinality({ i \in 2..Len(intervals) : intervals[i].boundary <= ts })

(* C27  Contract transitions align with adjustment boundaries: two adjacent bars
   written by the streaming engine that come from different contracts lie in different
   adjustment intervals. *)
C27_TransitionsAligned ==
    (job = "stream" /\ Running) =>
        \A k \in 1..(Len(out) - 1) :
            out[k].contract # out[k + 1].contract
            => IntervalOf(out[k].ts_event) # IntervalOf(out[k + 1].ts_event)

(* the number of rollovers that have switched at or before ts *)
SwitchedBy(ts) ==
    Cardinality({ k \in 1..Len(rollovers) : MidnightOf(rollovers[k].date) <= ts })

(* the contract active at ts *)
ActiveContract(ts) ==
    IF rollovers = <<>> THEN daily_primary[1].primary
    ELSE IF SwitchedBy(ts) = 0 THEN rollovers[1].from_symbol
    ELSE rollovers[SwitchedBy(ts)].to_symbol

(* C28  In-memory engine output structure: the saved series has strictly increasing
   timestamps; every bar comes from the contract active at its timestamp, the contract
   a rollover goes to being active from that rollover's switch up to the next switch;
   and every bar is shifted by minus the spreads of the rollovers that switch strictly
   after its timestamp, so a bar exactly on a switch belongs to the incoming contract
   and is not shifted by that rollover's spread. *)
C28_OutputStructure ==
    (job = "mem" /\ pc = "done") =>
        /\ \A k \in 1..(Len(out) - 1) : out[k].ts_event < out[k + 1].ts_event
        /\ \A k \in 1..Len(out) :
              /\ out[k].contract = ActiveContract(out[k].ts_event)
              /\ \E i \in 1..Len(src) :
                    /\ MadeFrom(out[k], i)
                    /\ out[k].close - src[i].close
                       = -SeqSum(SpreadsOf(StrictlyAfter(rollovers, out[k].ts_event)))

C28_Witness ==
    /\ job = "mem" /\ pc = "done"
    /\ Len(rollovers) >= 1
    /\ rollovers[1].spread # 0
    /\ \E k \in 2..Len(out) :
          /\ out[k].ts_event = MidnightOf(rollovers[1].date)
          /\ out[k].contract = rollovers[1].to_symbol
          /\ out[k - 1].contract = rollovers[1].from_symbol
    /\ \E i \in 1..Len(src) :
          /\ src[i].ts_event = MidnightOf(rollovers[1].date)
          /\ src[i].symbol = rollovers[1].from_symbol

(* C29  The no-overlap fallback is always defined: for every rollover the detector
   emits, the loaded data holds a bar of the outgoing contract strictly before the
   switch and a bar of the incoming contract at or after it, and the job never aborts
   while it computes the spreads. *)
C29_FallbackDefined ==
    (job = "mem" /\ pc \in {"detect", "spreads", "adjust", "done", "crash"}) =>
        /\ \A k \in 1..Len(rollovers) :
              /\ \E i \in 1..Len(df) :
                    /\ df[i].symbol = rollovers[k].from_symbol
                    /\ df[i].ts_event < MidnightOf(rollovers[k].date)
              /\ \E i \in 1..Len(df) :
                    /\ df[i].symbol = rollovers[k].to_symbol
                    /\ df[i].ts_event >= MidnightOf(rollovers[k].date)
        /\ pc = "crash" => (df = <<>> /\ rollovers = <<>>)

C29_Witness ==
    /\ job = "mem" /\ pc = "adjust" /\ pos = 0
    /\ \E k \in 1..Len(rollovers) :
          /\ rollovers[k].overlap_bars = 0
          /\ OverlapTimes(rollovers[k]) = {}
          /\ \E i, j \in 1..Len(df) :
                /\ FirstIncoming(rollovers[k], i) /\ LastOutgoing(rollovers[k], j)
                /\ df[i].ts_event > df[j].ts_event + TicksPerDay

(* a row that passes the calendar-spread and date filters and is not of the primary
   contract of its hour bucket *)
NonPrimaryRow(row) ==
    /\ CountedRow(row)
    /\ (row.ts_event \div TicksPerHour) \in DOMAIN primary_per_hour
    /\ primary_per_hour[row.ts_event \div TicksPerHour] # row.symbol

(* C30  Pass-1/pass-2 consistency: every row of pass 2 that passes the calendar-spread
   and date filters finds a primary for its hour bucket, so the rows skipped as
   non-primary are exactly the rows of another contract than their bucket's primary;
   and when pass 2 has finished every hour bucket of the map has a written bar of its
   primary contract. *)
C30_PassConsistency ==
    (job = "stream" /\ pc \in {"pass2", "done"}) =>
        /\ \A k \in 1..Len(src) :
              CountedRow(src[k])
              => (src[k].ts_event \div TicksPerHour) \in DOMAIN primary_per_hour
        /\ cnt.skipped_non_primary = Len(SelectSeq(SubSeq(src, 1, pos), NonPrimaryRow))
        /\ pc = "done" =>
              \A hk \in DOMAIN primary_per_hour :
                  \E k \in 1..Len(out) :
                     /\ out[k].ts_event \div TicksPerHour = hk
                     /\ out[k].contract = primary_per_hour[hk]

C30_Witness ==
    /\ job = "stream" /\ pc = "done"
    /\ Cardinality(DOMAIN primary_per_hour) >= 2
    /\ Len(out) >= 2
    /\ args.start = NoDate /\ args.end = NoDate

====
